---- MODULE Spec2Model ----
(***************************************************************************)
(* Selective-Repeat ARQ: sender A and receiver B of src/sr.c, closed with   *)
(* two FIFO channels that may lose or corrupt packets and the single       *)
(* one-shot timer the emulator gives A.                                    *)
(*                                                                         *)
(* A message is identified by its index in the accepted stream: the k-th   *)
(* accepted message (k = 0, 1, ...) carries the byte k in every payload    *)
(* position, so the payload of a packet names the message it copies.       *)
(***************************************************************************)
EXTENDS Integers, Sequences, FiniteSets, TLC

(* ------------------------------ constants ------------------------------ *)

WINDOWSIZE == 6

SEQSPACE == 12

NOTINUSE == -1

\* the character '0' that B writes in every payload byte of an ACK
ZeroChar == 48

\* the character the channel writes in a payload it corrupts
CorruptChar == 122

\* the value the channel writes in a header field it corrupts
CorruptNum == 999999

(* -------------------------------- bounds ------------------------------- *)

\* payload bytes per packet (20 in the source)
PayloadLen == 2

\* messages A_output may accept in one run
MaxMsgs == 6

\* messages already exchanged when a run that starts in mid-stream begins
StartAt == 7

\* packets in flight per direction; a packet sent on a full link is lost
MaxChan == 1

\* packets the channels may lose or corrupt in one run (besides overflow)
MaxFaults == 1

\* messages offered in the runs checked for liveness
LiveMsgs == 2

\* messages offered in the runs over links that lose and corrupt nothing
LossFreeMsgs == 10

\* packets in flight per direction in the runs without loss, where a handler
\* waits for room on the link
LossFreeChan == 4

\* what an uninitialised payload byte of B's local sendpkt may hold
Garbage == {0, 7}

VARIABLES
  dim,            \* [w, s, cap]: the window size and sequence space of the build,
                  \* and the packets a link holds in flight
  buffer,         \* A: packets waiting for ACK, by seqnum % w
  windowcount,    \* A: packets currently awaiting an ACK
  A_nextseqnum,   \* A: next sequence number to use
  send_base,      \* A: base of the send window
  acked,          \* A: which slots are ACKed
  timer_ids,      \* A (sr.c): seqnum recorded per slot
  timer_running,  \* A (src/unnamed/part_000 only): the sender's own timer flag
  rcv_buffer,     \* B: out-of-order packets, by seqnum % w
  rcv_acked,      \* B: which slots hold a received packet
  rcv_base,       \* B: base of the receive window
  B_nextseqnum,   \* B: sequence number of the next ACK packet
  chanAB,         \* packets in flight from A to B, oldest first
  chanBA,         \* packets in flight from B to A, oldest first
  nakBA,          \* for each packet of chanBA, what B sent it for: "nak" for a
                  \* corrupted packet, "dup" for one outside its window, "ack"
  timerA,         \* the emulator's timer of A is running
  faults,         \* losses and corruptions the channels may still cause
  quota,          \* messages A_output may still accept
  nmsg,           \* messages accepted by A_output so far
  delivered,      \* payloads handed to layer 5 at B, in order
  ev              \* the last event: what it received and what it called

vars == <<dim, buffer, windowcount, A_nextseqnum, send_base, acked, timer_ids,
          timer_running, rcv_buffer, rcv_acked, rcv_base, B_nextseqnum,
          chanAB, chanBA, nakBA, timerA, faults, quota, nmsg, delivered, ev>>

senderVars == <<buffer, windowcount, A_nextseqnum, send_base, acked, timer_ids,
                timer_running>>

receiverVars == <<rcv_buffer, rcv_acked, rcv_base, B_nextseqnum>>

W == dim.w

S == dim.s

Cap == dim.cap

Slots == 0 .. (W - 1)

(* ------------------------------- packets ------------------------------- *)

RECURSIVE SumBytes(_, _)
SumBytes(payload, i) ==
  IF i > Len(payload) THEN 0 ELSE payload[i] + SumBytes(payload, i + 1)

\* the mutant of ComputeChecksum: acknum is left out of the sum
ComputeChecksum_noAcknum(packet) ==
  packet.seqnum + SumBytes(packet.payload, 1)

ComputeChecksum(packet) ==
  packet.seqnum + packet.acknum + SumBytes(packet.payload, 1)

\* the mutant of IsCorrupted: the checksum is never found wrong
IsCorrupted_never(packet) == FALSE

IsCorrupted(packet) == packet.checksum # ComputeChecksum(packet)

\* a static struct pkt before anything is stored in it
ZeroPkt ==
  [seqnum |-> 0, acknum |-> 0, payload |-> [i \in 1 .. PayloadLen |-> 0],
   checksum |-> 0]

\* the data of the k-th accepted message
MsgData(k) == [i \in 1 .. PayloadLen |-> k]

\* the message a data payload copies
MsgOf(payload) == payload[1]

(* ------------------------- channel and timer --------------------------- *)

CorruptForms == {"payload", "seqnum", "acknum"}

\* the channel overwrites one field of the packet and keeps its checksum
Corrupt(packet, form) ==
  CASE form = "payload" ->
         [packet EXCEPT !.payload = [packet.payload EXCEPT ![1] = CorruptChar]]
    [] form = "seqnum" -> [packet EXCEPT !.seqnum = CorruptNum]
    [] form = "acknum" -> [packet EXCEPT !.acknum = CorruptNum]

\* tolayer3 on a link in state st = [ch, f]: the packet is queued, lost or
\* queued corrupted; the outcomes are the possible next states of the link
Tolayer3(st, packet) ==
  IF Len(st.ch) >= Cap
  THEN {st}
  ELSE {[ch |-> Append(st.ch, packet), f |-> st.f]}
       \cup (IF st.f > 0
             THEN {[ch |-> st.ch, f |-> st.f - 1]}
                  \cup {[ch |-> Append(st.ch, Corrupt(packet, form)), f |-> st.f - 1] :
                          form \in CorruptForms}
             ELSE {})

\* tolayer3 called once for every packet of pkts, in order
RECURSIVE SendAll(_, _)
SendAll(sts, pkts) ==
  IF pkts = <<>>
  THEN sts
  ELSE SendAll(UNION {Tolayer3(st, Head(pkts)) : st \in sts}, Tail(pkts))

(* ------------------------------- events -------------------------------- *)

\* what an event records: the packet it received, the packets it handed to
\* tolayer3 and the payloads it handed to tolayer5 (in call order), its calls
\* of starttimer and stoptimer, what it added to the statistics counters,
\* what B had sent the ACK it received for (nak, dup), and, for a WindowTest,
\* the answers of the two window tests (inA, inB)
NoEv ==
  [op |-> "init", pkt |-> ZeroPkt, sent |-> <<>>, deliv |-> <<>>,
   starts |-> 0, stops |-> 0, dblStart |-> FALSE, badStop |-> FALSE,
   window_full |-> 0, total_ACKs_received |-> 0, new_ACKs |-> 0,
   packets_resent |-> 0, packets_received |-> 0, absBase |-> 0, nak |-> FALSE,
   dup |-> FALSE, inA |-> FALSE, inB |-> FALSE, corrupted |-> FALSE]

(* --------------------------- sender A (sr.c) --------------------------- *)

\* the mutant of CanSend: one packet more than the window is let through
CanSend_offByOne == windowcount <= W

CanSend == windowcount < W

\* the mutant of MakeDataPkt: the packet carries the sequence number after its own
MakeDataPkt_nextSeq(seqnum, data) ==
  LET p == [seqnum |-> (seqnum + 1) % S, acknum |-> NOTINUSE, payload |-> data,
            checksum |-> 0]
  IN  [p EXCEPT !.checksum = ComputeChecksum(p)]

MakeDataPkt(seqnum, data) ==
  LET p == [seqnum |-> seqnum, acknum |-> NOTINUSE, payload |-> data, checksum |-> 0]
  IN  [p EXCEPT !.checksum = ComputeChecksum(p)]

A_output ==
  /\ windowcount < W => quota > 0
  /\ UNCHANGED <<dim, send_base, timer_running, receiverVars, chanBA, nakBA, delivered>>
  /\ IF CanSend
     THEN LET sendpkt == MakeDataPkt(A_nextseqnum, MsgData(nmsg))
              buf_index == A_nextseqnum % W
          IN  /\ buffer' = [buffer EXCEPT ![buf_index] = sendpkt]
              /\ acked' = [acked EXCEPT ![buf_index] = FALSE]
              /\ \E out \in Tolayer3([ch |-> chanAB, f |-> faults], sendpkt) :
                   /\ chanAB' = out.ch
                   /\ faults' = out.f
              /\ timer_ids' = [timer_ids EXCEPT ![buf_index] = sendpkt.seqnum]
              /\ timerA' = TRUE
              /\ windowcount' = windowcount + 1
              /\ A_nextseqnum' = (A_nextseqnum + 1) % S
              /\ quota' = quota - 1
              /\ nmsg' = nmsg + 1
              /\ ev' = [NoEv EXCEPT !.op = "A_output", !.sent = <<sendpkt>>,
                                    !.starts = 1, !.dblStart = timerA]
     ELSE /\ UNCHANGED <<buffer, acked, chanAB, faults, timer_ids, timerA,
                         windowcount, A_nextseqnum, quota, nmsg>>
          /\ ev' = [NoEv EXCEPT !.op = "A_output", !.window_full = 1]

\* the mutant of InWindowA: a window that spans the wrap is not recognised
InWindowA_noWrap(base, acknum) ==
  LET last == (base + W - 1) % S
  IN  base <= last /\ (acknum >= base /\ acknum <= last)

\* the mutant of InWindowA: every acknum counts as in the window
InWindowA_any(base, acknum) == TRUE

\* the sender's test that acknum lies in the window starting at base
InWindowA(base, acknum) ==
  LET last == (base + W - 1) % S
  IN  \/ (base <= last /\ (acknum >= base /\ acknum <= last))
      \/ (base > last /\ (acknum >= base \/ acknum <= last))

\* the mutant of SlideA: the window moves past the base only
SlideA_one(st) ==
  IF st.acked[st.send_base % W]
  THEN [acked |-> [st.acked EXCEPT ![st.send_base % W] = FALSE],
        send_base |-> (st.send_base + 1) % S,
        windowcount |-> st.windowcount - 1]
  ELSE st

\* the mutant of SlideA: send_base moves on but windowcount is not decremented
RECURSIVE SlideA_noCount(_)
SlideA_noCount(st) ==
  IF st.acked[st.send_base % W]
  THEN SlideA_noCount([acked |-> [st.acked EXCEPT ![st.send_base % W] = FALSE],
                       send_base |-> (st.send_base + 1) % S,
                       windowcount |-> st.windowcount])
  ELSE st

\* the mutant of SlideA: the loop does not stop when windowcount reaches 0
RECURSIVE SlideA_noBreak(_)
SlideA_noBreak(st) ==
  IF st.acked[st.send_base % W]
  THEN SlideA_noBreak([acked |-> [st.acked EXCEPT ![st.send_base % W] = FALSE],
                       send_base |-> (st.send_base + 1) % S,
                       windowcount |-> st.windowcount - 1])
  ELSE st

\* the slide of the window past the ACKed slots, on st = [acked, send_base,
\* windowcount]
RECURSIVE SlideA(_)
SlideA(st) ==
  IF st.acked[st.send_base % W]
  THEN LET n == [acked |-> [st.acked EXCEPT ![st.send_base % W] = FALSE],
                 send_base |-> (st.send_base + 1) % S,
                 windowcount |-> st.windowcount - 1]
       IN  IF n.windowcount = 0 THEN n ELSE SlideA(n)
  ELSE st

\* the loop that restarts the timer after a new ACK, entered with loop
\* variable i: TRUE when it calls starttimer
RECURSIVE RestartScan(_, _, _, _, _)
RestartScan(i, sb, wc, ak, ns) ==
  IF i >= wc
  THEN FALSE
  ELSE LET seqnum == (sb + i) % W
       IN  IF seqnum = ns
           THEN FALSE
           ELSE IF ~ak[seqnum % W]
                THEN TRUE
                ELSE RestartScan((seqnum % W) + 1, sb, wc, ak, ns)

\* the mutant of A_receive: a new ACK acknowledges every packet from the base
\* up to acknum, as a cumulative ACK would, and the window slides past them
A_receive_cumulative(st, packet) ==
  LET same == [acked |-> st.acked, send_base |-> st.send_base,
               windowcount |-> st.windowcount, timerA |-> st.timerA,
               total_ACKs_received |-> 0, new_ACKs |-> 0,
               stops |-> 0, starts |-> 0, badStop |-> FALSE]
  IN  IF IsCorrupted(packet)
      THEN same
      ELSE IF InWindowA(st.send_base, packet.acknum) /\ ~st.acked[packet.acknum % W]
           THEN LET n == ((packet.acknum - st.send_base + S) % S) + 1
                    restart == st.windowcount - n > 0
                IN  [acked |-> [i \in DOMAIN st.acked |->
                                  IF \E d \in 0 .. (n - 1) : ((st.send_base + d) % S) % W = i
                                  THEN FALSE ELSE st.acked[i]],
                     send_base |-> (st.send_base + n) % S,
                     windowcount |-> st.windowcount - n, timerA |-> restart,
                     total_ACKs_received |-> 1, new_ACKs |-> 1,
                     stops |-> 1, starts |-> IF restart THEN 1 ELSE 0,
                     badStop |-> ~st.timerA]
           ELSE [same EXCEPT !.total_ACKs_received = 1]

\* the sender's protocol state, as A_input reads and writes it
SenderState ==
  [acked |-> acked, send_base |-> send_base, windowcount |-> windowcount,
   timerA |-> timerA]

\* what A_input does to the sender state st on receiving packet: the new
\* state, what it adds to the counters and its calls of the timer
A_receive(st, packet) ==
  LET same == [acked |-> st.acked, send_base |-> st.send_base,
               windowcount |-> st.windowcount, timerA |-> st.timerA,
               total_ACKs_received |-> 0, new_ACKs |-> 0,
               stops |-> 0, starts |-> 0, badStop |-> FALSE]
  IN  IF IsCorrupted(packet)
      THEN same
      ELSE IF InWindowA(st.send_base, packet.acknum) /\ ~st.acked[packet.acknum % W]
           THEN LET i == packet.acknum % W
                    marked == [acked |-> [st.acked EXCEPT ![i] = TRUE],
                               send_base |-> st.send_base,
                               windowcount |-> st.windowcount]
                    slid == IF packet.acknum = st.send_base THEN SlideA(marked)
                            ELSE marked
                    restart == /\ slid.windowcount > 0
                               /\ RestartScan(0, slid.send_base, slid.windowcount,
                                              slid.acked, A_nextseqnum)
                IN  [acked |-> slid.acked, send_base |-> slid.send_base,
                     windowcount |-> slid.windowcount, timerA |-> restart,
                     total_ACKs_received |-> 1, new_ACKs |-> 1,
                     stops |-> 1, starts |-> IF restart THEN 1 ELSE 0,
                     badStop |-> ~st.timerA]
           ELSE [same EXCEPT !.total_ACKs_received = 1]

A_input ==
  /\ chanBA # <<>>
  /\ UNCHANGED <<dim, buffer, A_nextseqnum, timer_ids, timer_running, receiverVars,
                 chanAB, faults, quota, nmsg, delivered>>
  /\ \E packet \in {Head(chanBA)} :
     \E r \in {A_receive(SenderState, packet)} :
         /\ chanBA' = Tail(chanBA)
         /\ nakBA' = Tail(nakBA)
         /\ acked' = r.acked
         /\ send_base' = r.send_base
         /\ windowcount' = r.windowcount
         /\ timerA' = r.timerA
         /\ ev' = [NoEv EXCEPT !.op = "A_input", !.pkt = packet,
                               !.nak = (Head(nakBA) = "nak"),
                               !.dup = (Head(nakBA) = "dup"),
                               !.total_ACKs_received = r.total_ACKs_received,
                               !.new_ACKs = r.new_ACKs,
                               !.stops = r.stops, !.starts = r.starts,
                               !.badStop = r.badStop]

\* the mutant of TimerScan: the slot resent is the one after the base's
TimerScan_afterBase(i) == ((send_base + 1) % S) % W

\* the loop of A_timerinterrupt, entered with loop variable i: the slot it
\* resends, or -1 when it leaves without resending
RECURSIVE TimerScan(_)
TimerScan(i) ==
  IF i >= windowcount
  THEN -1
  ELSE LET j == ((send_base + i) % S) % W
       IN  IF ~acked[j] /\ (send_base + j) % S # A_nextseqnum
           THEN j
           ELSE TimerScan(j + 1)

A_timerinterrupt ==
  /\ timerA
  /\ UNCHANGED <<dim, senderVars, receiverVars, chanBA, nakBA, quota, nmsg, delivered>>
  /\ LET j == TimerScan(0)
     IN  IF j >= 0
         THEN /\ \E out \in Tolayer3([ch |-> chanAB, f |-> faults], buffer[j]) :
                   /\ chanAB' = out.ch
                   /\ faults' = out.f
              /\ timerA' = TRUE
              /\ ev' = [NoEv EXCEPT !.op = "A_timerinterrupt", !.sent = <<buffer[j]>>,
                                    !.packets_resent = 1, !.starts = 1]
         ELSE /\ UNCHANGED <<chanAB, faults>>
              /\ timerA' = FALSE
              /\ ev' = [NoEv EXCEPT !.op = "A_timerinterrupt"]

(* -------------------------- receiver B (sr.c) -------------------------- *)

\* the mutant of InWindowB: every seqnum counts as in the window
InWindowB_any(base, seqnum) == TRUE

\* the mutant of InWindowB: the window starts one sequence number too early
InWindowB_lowOffByOne(base, seqnum) ==
  LET rcv_last == (base + W - 1) % S
  IN  \/ (base <= rcv_last /\ seqnum >= base - 1 /\ seqnum <= rcv_last)
      \/ (base > rcv_last /\ (seqnum >= base - 1 \/ seqnum <= rcv_last))

\* the receiver's test that seqnum lies in the window starting at base
InWindowB(base, seqnum) ==
  LET rcv_last == (base + W - 1) % S
  IN  \/ (base <= rcv_last /\ seqnum >= base /\ seqnum <= rcv_last)
      \/ (base > rcv_last /\ (seqnum >= base \/ seqnum <= rcv_last))

\* the mutant of DrainB: the loop delivers the packet at rcv_base and stops
DrainB_single(st, buf) ==
  [rcv_acked |-> [st.rcv_acked EXCEPT ![st.rcv_base % W] = FALSE],
   rcv_base |-> (st.rcv_base + 1) % S,
   deliv |-> Append(st.deliv, buf[st.rcv_base % W].payload)]

\* the delivery loop on st = [rcv_acked, rcv_base, deliv], reading buf
RECURSIVE DrainB(_, _)
DrainB(st, buf) ==
  IF st.rcv_acked[st.rcv_base % W]
  THEN DrainB([rcv_acked |-> [st.rcv_acked EXCEPT ![st.rcv_base % W] = FALSE],
               rcv_base |-> (st.rcv_base + 1) % S,
               deliv |-> Append(st.deliv, buf[st.rcv_base % W].payload)],
              buf)
  ELSE st

\* the mutant of NakNum: a corrupted packet is answered with the number after
\* rcv_base
NakNum_ahead == (rcv_base + 1) % S

\* the mutant of NakNum: rcv_base - 1 without the wrap to S - 1
NakNum_noWrap == rcv_base - 1

\* the mutant of NakNum: a corrupted packet is answered with rcv_base itself
NakNum_base == rcv_base

\* the acknum B sends for a corrupted packet
NakNum == IF rcv_base = 0 THEN S - 1 ELSE rcv_base - 1

\* the mutant of B_receive: an in-window packet is delivered on arrival, the
\* window jumping to it, whether or not the packets before it have come
B_receive_jump(packet) ==
  IF ~IsCorrupted(packet)
  THEN IF InWindowB(rcv_base, packet.seqnum)
       THEN LET packet_index == packet.seqnum % W
                buf == [rcv_buffer EXCEPT ![packet_index] = packet]
                st == [rcv_acked |-> [rcv_acked EXCEPT ![packet_index] = TRUE],
                       rcv_base |-> packet.seqnum, deliv |-> <<>>]
                d == DrainB(st, buf)
            IN  [rcv_buffer |-> buf, rcv_acked |-> d.rcv_acked, rcv_base |-> d.rcv_base,
                 deliv |-> d.deliv, acknum |-> packet.seqnum, packets_received |-> 1]
       ELSE [rcv_buffer |-> rcv_buffer, rcv_acked |-> rcv_acked, rcv_base |-> rcv_base,
             deliv |-> <<>>, acknum |-> packet.seqnum, packets_received |-> 0]
  ELSE [rcv_buffer |-> rcv_buffer, rcv_acked |-> rcv_acked, rcv_base |-> rcv_base,
        deliv |-> <<>>, acknum |-> NakNum, packets_received |-> 0]

\* the mutant of B_receive: the checksum is not looked at
B_receive_noChecksum(packet) ==
  IF packet.seqnum \in 0 .. (S - 1) /\ InWindowB(rcv_base, packet.seqnum)
  THEN LET packet_index == packet.seqnum % W
           buf == [rcv_buffer EXCEPT ![packet_index] = packet]
           st == [rcv_acked |-> [rcv_acked EXCEPT ![packet_index] = TRUE],
                  rcv_base |-> rcv_base, deliv |-> <<>>]
           d == IF packet.seqnum = rcv_base THEN DrainB(st, buf) ELSE st
       IN  [rcv_buffer |-> buf, rcv_acked |-> d.rcv_acked, rcv_base |-> d.rcv_base,
            deliv |-> d.deliv, acknum |-> packet.seqnum, packets_received |-> 1]
  ELSE [rcv_buffer |-> rcv_buffer, rcv_acked |-> rcv_acked, rcv_base |-> rcv_base,
        deliv |-> <<>>, acknum |-> packet.seqnum % S, packets_received |-> 0]

\* the mutant of B_receive: a packet outside the window is answered with the
\* number before rcv_base, as a cumulative ACK would be
B_receive_cumulative(packet) ==
  IF ~IsCorrupted(packet) /\ InWindowB(rcv_base, packet.seqnum)
  THEN LET packet_index == packet.seqnum % W
           buf == [rcv_buffer EXCEPT ![packet_index] = packet]
           st == [rcv_acked |-> [rcv_acked EXCEPT ![packet_index] = TRUE],
                  rcv_base |-> rcv_base, deliv |-> <<>>]
           d == IF packet.seqnum = rcv_base THEN DrainB(st, buf) ELSE st
       IN  [rcv_buffer |-> buf, rcv_acked |-> d.rcv_acked, rcv_base |-> d.rcv_base,
            deliv |-> d.deliv, acknum |-> packet.seqnum, packets_received |-> 1]
  ELSE [rcv_buffer |-> rcv_buffer, rcv_acked |-> rcv_acked, rcv_base |-> rcv_base,
        deliv |-> <<>>, acknum |-> NakNum, packets_received |-> 0]

\* what B_input does with the packet before it builds the ACK: the receiver's
\* new window, the payloads delivered, the acknum to send
B_receive(packet) ==
  IF ~IsCorrupted(packet)
  THEN IF InWindowB(rcv_base, packet.seqnum)
       THEN LET packet_index == packet.seqnum % W
                buf == [rcv_buffer EXCEPT ![packet_index] = packet]
                st == [rcv_acked |-> [rcv_acked EXCEPT ![packet_index] = TRUE],
                       rcv_base |-> rcv_base, deliv |-> <<>>]
                d == IF packet.seqnum = rcv_base THEN DrainB(st, buf) ELSE st
            IN  [rcv_buffer |-> buf, rcv_acked |-> d.rcv_acked, rcv_base |-> d.rcv_base,
                 deliv |-> d.deliv, acknum |-> packet.seqnum, packets_received |-> 1]
       ELSE [rcv_buffer |-> rcv_buffer, rcv_acked |-> rcv_acked, rcv_base |-> rcv_base,
             deliv |-> <<>>, acknum |-> packet.seqnum, packets_received |-> 0]
  ELSE [rcv_buffer |-> rcv_buffer, rcv_acked |-> rcv_acked, rcv_base |-> rcv_base,
        deliv |-> <<>>, acknum |-> NakNum, packets_received |-> 0]

\* the mutant of AckPackets: the ACKs carry the sequence number after acknum
AckPackets_nextNum(acknum, g) ==
  [k \in 1 .. PayloadLen |->
     LET p == [seqnum |-> B_nextseqnum, acknum |-> (acknum + 1) % S,
               payload |-> [i \in 1 .. PayloadLen |-> IF i <= k THEN ZeroChar ELSE g],
               checksum |-> 0]
     IN  [p EXCEPT !.checksum = ComputeChecksum(p)]]

\* the packets the closing loop of B_input hands to tolayer3, in order: the
\* k-th is built when payload bytes 1..k are '0' and the others still hold
\* what the local variable held on entry (g)
AckPackets(acknum, g) ==
  [k \in 1 .. PayloadLen |->
     LET p == [seqnum |-> B_nextseqnum, acknum |-> acknum,
               payload |-> [i \in 1 .. PayloadLen |-> IF i <= k THEN ZeroChar ELSE g],
               checksum |-> 0]
     IN  [p EXCEPT !.checksum = ComputeChecksum(p)]]

B_input ==
  /\ chanAB # <<>>
  /\ UNCHANGED <<dim, senderVars, timerA, quota, nmsg>>
  /\ \E packet \in {Head(chanAB)} :
     \E r \in {B_receive(packet)} :
         /\ chanAB' = Tail(chanAB)
         /\ rcv_buffer' = r.rcv_buffer
         /\ rcv_acked' = r.rcv_acked
         /\ rcv_base' = r.rcv_base
         /\ delivered' = delivered \o r.deliv
         /\ B_nextseqnum' = (B_nextseqnum + 1) % 2
         /\ \E g \in Garbage :
              \E pkts \in {AckPackets(r.acknum, g)} :
                  /\ \E out \in SendAll({[ch |-> chanBA, f |-> faults]}, pkts) :
                       /\ chanBA' = out.ch
                       /\ faults' = out.f
                       /\ nakBA' = nakBA \o [n \in 1 .. (Len(out.ch) - Len(chanBA)) |->
                                               IF IsCorrupted(packet) THEN "nak"
                                               ELSE IF r.packets_received = 1 THEN "ack"
                                               ELSE "dup"]
                  /\ ev' = [NoEv EXCEPT !.op = "B_input", !.pkt = packet, !.sent = pkts,
                                        !.deliv = r.deliv,
                                        !.packets_received = r.packets_received,
                                        !.absBase = Len(delivered)]

(* ------------------ sender A (src/unnamed/part_000) -------------------- *)

\* the mutant of StartOnSend: the timer is started for every packet sent
StartOnSend_always == TRUE

\* A_output starts the timer for the first packet of an empty window
StartOnSend == windowcount = 0 /\ ~timer_running

A_output_part000 ==
  /\ windowcount < W => quota > 0
  /\ UNCHANGED <<dim, send_base, timer_ids, receiverVars, chanBA, nakBA, delivered>>
  /\ IF windowcount < W
     THEN LET sendpkt == MakeDataPkt(A_nextseqnum, MsgData(nmsg))
              buf_index == A_nextseqnum % W
          IN  /\ buffer' = [buffer EXCEPT ![buf_index] = sendpkt]
              /\ acked' = [acked EXCEPT ![buf_index] = FALSE]
              /\ \E out \in Tolayer3([ch |-> chanAB, f |-> faults], sendpkt) :
                   /\ chanAB' = out.ch
                   /\ faults' = out.f
              /\ IF StartOnSend
                 THEN /\ timer_running' = TRUE
                      /\ timerA' = TRUE
                      /\ ev' = [NoEv EXCEPT !.op = "A_output", !.sent = <<sendpkt>>,
                                            !.starts = 1, !.dblStart = timerA]
                 ELSE /\ UNCHANGED <<timer_running, timerA>>
                      /\ ev' = [NoEv EXCEPT !.op = "A_output", !.sent = <<sendpkt>>]
              /\ windowcount' = windowcount + 1
              /\ A_nextseqnum' = (A_nextseqnum + 1) % S
              /\ quota' = quota - 1
              /\ nmsg' = nmsg + 1
     ELSE /\ UNCHANGED <<buffer, acked, chanAB, faults, timer_running, timerA,
                         windowcount, A_nextseqnum, quota, nmsg>>
          /\ ev' = [NoEv EXCEPT !.op = "A_output", !.window_full = 1]

\* what A_input of part_000 does to the sender state st = [acked, send_base,
\* windowcount, timerA, timer_running] on receiving packet
A_receive_part000(st, packet) ==
  LET same == [acked |-> st.acked, send_base |-> st.send_base,
               windowcount |-> st.windowcount, timerA |-> st.timerA,
               timer_running |-> st.timer_running,
               total_ACKs_received |-> 0, new_ACKs |-> 0,
               stops |-> 0, starts |-> 0, badStop |-> FALSE]
  IN  IF IsCorrupted(packet)
      THEN same
      ELSE IF InWindowA(st.send_base, packet.acknum) /\ ~st.acked[packet.acknum % W]
           THEN LET index == packet.acknum % W
                    marked == [acked |-> [st.acked EXCEPT ![index] = TRUE],
                               send_base |-> st.send_base,
                               windowcount |-> st.windowcount]
                IN  IF packet.acknum = st.send_base
                    THEN LET slid == SlideA(marked)
                             restart == slid.windowcount > 0
                         IN  [acked |-> slid.acked, send_base |-> slid.send_base,
                              windowcount |-> slid.windowcount,
                              timerA |-> restart, timer_running |-> restart,
                              total_ACKs_received |-> 1, new_ACKs |-> 1,
                              stops |-> 1, starts |-> IF restart THEN 1 ELSE 0,
                              badStop |-> ~st.timerA]
                    ELSE [same EXCEPT !.acked = marked.acked,
                                      !.total_ACKs_received = 1, !.new_ACKs = 1]
           ELSE [same EXCEPT !.total_ACKs_received = 1]

A_input_part000 ==
  /\ chanBA # <<>>
  /\ UNCHANGED <<dim, buffer, A_nextseqnum, timer_ids, receiverVars,
                 chanAB, faults, quota, nmsg, delivered>>
  /\ \E packet \in {Head(chanBA)} :
     \E r \in {A_receive_part000([acked |-> acked, send_base |-> send_base,
                                  windowcount |-> windowcount, timerA |-> timerA,
                                  timer_running |-> timer_running], packet)} :
         /\ chanBA' = Tail(chanBA)
         /\ nakBA' = Tail(nakBA)
         /\ acked' = r.acked
         /\ send_base' = r.send_base
         /\ windowcount' = r.windowcount
         /\ timerA' = r.timerA
         /\ timer_running' = r.timer_running
         /\ ev' = [NoEv EXCEPT !.op = "A_input", !.pkt = packet,
                               !.nak = (Head(nakBA) = "nak"),
                               !.dup = (Head(nakBA) = "dup"),
                               !.total_ACKs_received = r.total_ACKs_received,
                               !.new_ACKs = r.new_ACKs,
                               !.stops = r.stops, !.starts = r.starts,
                               !.badStop = r.badStop]

\* the mutant of ResendDue: the flag looked at is that of the next slot to fill
ResendDue_nextSlot == ~acked[A_nextseqnum % W]

\* A_timerinterrupt resends the packet at send_base when it is not ACKed
ResendDue == ~acked[send_base % W]

A_timerinterrupt_part000 ==
  /\ timerA
  /\ UNCHANGED <<dim, buffer, windowcount, A_nextseqnum, send_base, acked, timer_ids,
                 receiverVars, chanBA, nakBA, quota, nmsg, delivered>>
  /\ LET index == send_base % W
     IN  IF ResendDue
         THEN /\ \E out \in Tolayer3([ch |-> chanAB, f |-> faults], buffer[index]) :
                   /\ chanAB' = out.ch
                   /\ faults' = out.f
              /\ timer_running' = TRUE
              /\ timerA' = TRUE
              /\ ev' = [NoEv EXCEPT !.op = "A_timerinterrupt",
                                    !.sent = <<buffer[index]>>,
                                    !.packets_resent = 1, !.starts = 1]
         ELSE /\ UNCHANGED <<chanAB, faults, timer_running>>
              /\ timerA' = FALSE
              /\ ev' = [NoEv EXCEPT !.op = "A_timerinterrupt"]

(* ----------------- receiver B (src/unnamed/part_000) ------------------- *)

\* the one ACK packet B_input of part_000 builds
AckPacket_part000(acknum) ==
  LET p == [seqnum |-> B_nextseqnum, acknum |-> acknum,
            payload |-> [i \in 1 .. PayloadLen |-> ZeroChar], checksum |-> 0]
  IN  [p EXCEPT !.checksum = ComputeChecksum(p)]

\* B_input of part_000 treats the packet as B_input of sr.c does (B_receive)
\* and then sends one ACK
B_input_part000 ==
  /\ chanAB # <<>>
  /\ UNCHANGED <<dim, senderVars, timerA, quota, nmsg>>
  /\ \E packet \in {Head(chanAB)} :
     \E r \in {B_receive(packet)} :
     \E sendpkt \in {AckPacket_part000(r.acknum)} :
         /\ chanAB' = Tail(chanAB)
         /\ rcv_buffer' = r.rcv_buffer
         /\ rcv_acked' = r.rcv_acked
         /\ rcv_base' = r.rcv_base
         /\ delivered' = delivered \o r.deliv
         /\ B_nextseqnum' = (B_nextseqnum + 1) % 2
         /\ \E out \in Tolayer3([ch |-> chanBA, f |-> faults], sendpkt) :
              /\ chanBA' = out.ch
              /\ faults' = out.f
              /\ nakBA' = nakBA \o [n \in 1 .. (Len(out.ch) - Len(chanBA)) |->
                                      IF IsCorrupted(packet) THEN "nak"
                                      ELSE IF r.packets_received = 1 THEN "ack"
                                      ELSE "dup"]
         /\ ev' = [NoEv EXCEPT !.op = "B_input", !.pkt = packet, !.sent = <<sendpkt>>,
                               !.deliv = r.deliv,
                               !.packets_received = r.packets_received,
                               !.absBase = Len(delivered)]

(* ----------------------------- the system ------------------------------ *)

\* the state after A_init and B_init of a build with window w and sequence
\* space s, B's ACK numbering starting at b, and q messages to offer, over
\* links that hold cap packets and cause up to f losses and corruptions
InitBuild(w, s, b, q, cap, f) ==
  /\ dim = [w |-> w, s |-> s, cap |-> cap]
  /\ buffer = [i \in 0 .. (w - 1) |-> ZeroPkt]
  /\ windowcount = 0
  /\ A_nextseqnum = 0
  /\ send_base = 0
  /\ acked = [i \in 0 .. (w - 1) |-> TRUE]
  /\ timer_ids = [i \in 0 .. (w - 1) |-> NOTINUSE]
  /\ timer_running = FALSE
  /\ rcv_buffer = [i \in 0 .. (w - 1) |-> ZeroPkt]
  /\ rcv_acked = [i \in 0 .. (w - 1) |-> FALSE]
  /\ rcv_base = 0
  /\ B_nextseqnum = b
  /\ chanAB = <<>>
  /\ chanBA = <<>>
  /\ nakBA = <<>>
  /\ timerA = FALSE
  /\ faults = f
  /\ quota = q
  /\ nmsg = 0
  /\ delivered = <<>>
  /\ ev = NoEv

InitWith(w, s, b, q) == InitBuild(w, s, b, q, MaxChan, MaxFaults)

\* the packets A and B hold in slot i once the first k messages went through
SlotPkt(i, k) ==
  LET m == CHOOSE n \in 0 .. (k - 1) :
             n % WINDOWSIZE = i /\ \A o \in 0 .. (k - 1) : o % WINDOWSIZE = i => o <= n
  IN  MakeDataPkt(m % SEQSPACE, MsgData(m))

\* the first ACK packet of B's k-th call (k = 1, 2, ...), for acknum, when
\* the bytes not yet written held 0
AckOfCall(k, acknum) ==
  LET p == [seqnum |-> (k - 1) % 2, acknum |-> acknum,
            payload |-> [i \in 1 .. PayloadLen |-> IF i <= 1 THEN ZeroChar ELSE 0],
            checksum |-> 0]
  IN  [p EXCEPT !.checksum = ComputeChecksum(p)]

\* the state src/sr.c is in when k >= WINDOWSIZE messages have been sent,
\* delivered and acknowledged one at a time with no loss, and q more are to
\* be offered: the state A_init, B_init and k rounds of A_output, B_input,
\* A_input lead to
MidRun(k, q) ==
  /\ dim = [w |-> WINDOWSIZE, s |-> SEQSPACE, cap |-> MaxChan]
  /\ buffer = [i \in 0 .. (WINDOWSIZE - 1) |-> SlotPkt(i, k)]
  /\ windowcount = 0
  /\ A_nextseqnum = k % SEQSPACE
  /\ send_base = k % SEQSPACE
  /\ acked = [i \in 0 .. (WINDOWSIZE - 1) |-> FALSE]
  /\ timer_ids = [i \in 0 .. (WINDOWSIZE - 1) |-> SlotPkt(i, k).seqnum]
  /\ timer_running = FALSE
  /\ rcv_buffer = [i \in 0 .. (WINDOWSIZE - 1) |-> SlotPkt(i, k)]
  /\ rcv_acked = [i \in 0 .. (WINDOWSIZE - 1) |-> FALSE]
  /\ rcv_base = k % SEQSPACE
  /\ B_nextseqnum = k % 2
  /\ chanAB = <<>>
  /\ chanBA = <<>>
  /\ nakBA = <<>>
  /\ timerA = FALSE
  /\ faults = MaxFaults
  /\ quota = q
  /\ nmsg = k
  /\ delivered = [m \in 1 .. k |-> MsgData(m - 1)]
  /\ ev = [NoEv EXCEPT !.op = "A_input",
                       !.pkt = AckOfCall(k, (k - 1) % SEQSPACE),
                       !.total_ACKs_received = 1, !.new_ACKs = 1, !.stops = 1]

\* a run starts at initialisation, or in mid-stream just before the sequence
\* numbers wrap
Init ==
  \/ InitWith(WINDOWSIZE, SEQSPACE, 0, MaxMsgs)
  \/ MidRun(StartAt, MaxMsgs)

Next == A_output \/ A_input \/ A_timerinterrupt \/ B_input

\* src/sr.c
Spec == Init /\ [][Next]_vars

\* src/sr.c from initialisation only, for as many messages as a mid-stream
\* start skips: it reaches the state MidRun describes
SpecFromInit == InitWith(WINDOWSIZE, SEQSPACE, 0, StartAt) /\ [][Next]_vars

MidRunReached == MidRun(StartAt, 0)

\* src/sr.c from initialisation with LiveMsgs messages, under the fairness
\* the emulator gives: a running timer fires, a packet in flight arrives
LiveSpec ==
  /\ InitWith(WINDOWSIZE, SEQSPACE, 0, LiveMsgs)
  /\ [][Next]_vars
  /\ WF_vars(A_timerinterrupt)
  /\ WF_vars(B_input)
  /\ WF_vars(A_input)

\* a step in which every packet handed to tolayer3 was queued
NoDrop ==
  Len(chanAB') + Len(chanBA') =
    Len(chanAB) + Len(chanBA) + Len(ev'.sent)
      - (IF ev'.op \in {"A_input", "B_input"} THEN 1 ELSE 0)

LossFreeNext ==
  \/ A_output /\ NoDrop
  \/ A_input
  \/ A_timerinterrupt /\ NoDrop
  \/ B_input /\ NoDrop

\* src/sr.c from initialisation with LossFreeMsgs messages, over links that
\* neither lose nor corrupt a packet: a handler runs when the link has room
\* for what it sends
LossFreeSpec ==
  /\ InitBuild(WINDOWSIZE, SEQSPACE, 0, LossFreeMsgs, LossFreeChan, 0)
  /\ [][LossFreeNext]_vars

\* the window tests of A_input and B_input applied to the number x, with the
\* bases as they stand
WindowTest ==
  /\ \E x \in 0 .. (S - 1) :
       ev' = [NoEv EXCEPT !.op = "WindowTest",
                          !.pkt = [ZeroPkt EXCEPT !.seqnum = x, !.acknum = x],
                          !.inA = InWindowA(send_base, x),
                          !.inB = InWindowB(rcv_base, x)]
  /\ UNCHANGED <<dim, senderVars, receiverVars, chanAB, chanBA, nakBA, timerA,
                 faults, quota, nmsg, delivered>>

\* the two window tests on every number of the sequence space, for every
\* base: the bases are those of src/sr.c after k messages went through, for
\* SEQSPACE values of k in a row
WindowTestSpec ==
  /\ \E k \in WINDOWSIZE .. (WINDOWSIZE + SEQSPACE - 1) : MidRun(k, 0)
  /\ [][WindowTest]_vars

\* the numbers a packet's seqnum and acknum are drawn from in ChecksumSpec,
\* before the link changes them
ChkMaxNum == 2

ChkNums == {NOTINUSE} \cup (0 .. ChkMaxNum)

\* the payload bytes of ChecksumSpec
ChkBytes == {ZeroChar, ZeroChar + 1, CorruptChar}

ChkPayloads == [1 .. PayloadLen -> ChkBytes]

\* a packet p is built with the checksum ComputeChecksum gives it, and the
\* link turns it into a packet q that keeps p's checksum field
ChecksumInput ==
  /\ ev.op = "init"
  /\ \E sn, an \in ChkNums, pl \in ChkPayloads :
     \E qsn \in {sn, CorruptNum} \cup ChkNums, qan \in {an, CorruptNum} \cup ChkNums,
        qpl \in ChkPayloads :
       LET p0 == [seqnum |-> sn, acknum |-> an, payload |-> pl, checksum |-> 0]
           p == [p0 EXCEPT !.checksum = ComputeChecksum(p0)]
           q == [seqnum |-> qsn, acknum |-> qan, payload |-> qpl,
                 checksum |-> p.checksum]
       IN  ev' = [NoEv EXCEPT !.op = "tolayer3", !.sent = <<p>>, !.pkt = q]
  /\ UNCHANGED <<dim, senderVars, receiverVars, chanAB, chanBA, nakBA, timerA,
                 faults, quota, nmsg, delivered>>

\* IsCorrupted applied to the packet that arrived
ChecksumTest ==
  /\ ev.op = "tolayer3"
  /\ ev' = [ev EXCEPT !.op = "IsCorrupted", !.corrupted = IsCorrupted(ev.pkt)]
  /\ UNCHANGED <<dim, senderVars, receiverVars, chanAB, chanBA, nakBA, timerA,
                 faults, quota, nmsg, delivered>>

ChecksumNext ==
  \/ ChecksumInput
  \/ ChecksumTest

\* ComputeChecksum and IsCorrupted on pairs of packets drawn from ChkNums,
\* CorruptNum and ChkPayloads
ChecksumSpec ==
  /\ InitWith(WINDOWSIZE, SEQSPACE, 0, 0)
  /\ [][ChecksumNext]_vars

\* the window size and sequence space of a build of src/sr.c whose sequence
\* space is less than twice its window
SmallWindow == 2

SmallSeqSpace == 3

\* src/sr.c built with WINDOWSIZE = SmallWindow and SEQSPACE = SmallSeqSpace,
\* the code otherwise unchanged, from initialisation
SmallSpec ==
  /\ InitWith(SmallWindow, SmallSeqSpace, 0, MaxMsgs)
  /\ [][Next]_vars

Next_part000 ==
  \/ A_output_part000
  \/ A_input_part000
  \/ A_timerinterrupt_part000
  \/ B_input_part000

\* src/unnamed/part_000 from initialisation (B_init sets B_nextseqnum to 1)
Spec_part000 ==
  /\ InitWith(WINDOWSIZE, SEQSPACE, 1, MaxMsgs)
  /\ [][Next_part000]_vars

\* src/unnamed/part_000 with LiveMsgs messages, under the fairness the
\* emulator gives: a running timer fires, a packet in flight arrives
LiveSpec_part000 ==
  /\ InitWith(WINDOWSIZE, SEQSPACE, 1, LiveMsgs)
  /\ [][Next_part000]_vars
  /\ WF_vars(A_timerinterrupt_part000)
  /\ WF_vars(B_input_part000)
  /\ WF_vars(A_input_part000)

(* ------------------------------- claims -------------------------------- *)

\* C1: the payloads B has handed to layer 5 are a prefix of the messages
\* A_output accepted: same order, no duplicate, no gap
C1_InOrderDelivery ==
  /\ Len(delivered) <= nmsg
  /\ \A i \in 1 .. Len(delivered) : delivered[i] = MsgData(i - 1)

\* a run that starts before the wrap has delivered every message, the last
\* of them sent with a sequence number that wrapped past SEQSPACE
C1_Witness ==
  /\ Len(delivered) = nmsg
  /\ nmsg > SEQSPACE
  /\ ev.op = "B_input"
  /\ Len(ev.deliv) > 1

\* C2: every message A_output accepted is eventually delivered to layer 5
C2_EventualDelivery ==
  \A k \in 0 .. (LiveMsgs - 1) : (nmsg > k) ~> (Len(delivered) > k)

\* the message a data packet was built for, from the copy the payload names
IsCopyOf(packet, m) == packet = MakeDataPkt(m % S, MsgData(m))

\* C3: a packet B_input accepts as inside its receive window is a copy of a
\* message whose index lies in B's window counted in whole messages, and
\* so is every packet B keeps buffered
C3_NoConfusion ==
  /\ (ev.op = "B_input" /\ ev.packets_received = 1) =>
        /\ MsgOf(ev.pkt.payload) \in ev.absBase .. (ev.absBase + W - 1)
        /\ IsCopyOf(ev.pkt, MsgOf(ev.pkt.payload))
  /\ \A i \in Slots :
        rcv_acked[i] =>
          /\ MsgOf(rcv_buffer[i].payload) \in Len(delivered) .. (Len(delivered) + W - 1)
          /\ IsCopyOf(rcv_buffer[i], MsgOf(rcv_buffer[i].payload))

\* B accepts, out of order, the packet of a message whose sequence number
\* wrapped, in a window that spans the wrap
C3_Witness ==
  /\ ev.op = "B_input"
  /\ ev.packets_received = 1
  /\ MsgOf(ev.pkt.payload) >= SEQSPACE
  /\ ev.pkt.seqnum < rcv_base
  /\ rcv_acked[ev.pkt.seqnum % W]

\* C4: the sender's windowcount stays within 0 .. WINDOWSIZE
C4_WindowBound == 0 <= windowcount /\ windowcount <= W

\* the window is full and the application offers one more message
C4_Witness == windowcount = W /\ ev.op = "A_output" /\ ev.window_full = 1

\* the outstanding sequence numbers, oldest first, are send_base + d for
\* d < windowcount; the distance of the oldest unacknowledged one, or -1
OldestUnacked ==
  LET ds == {d \in 0 .. (windowcount - 1) : ~acked[((send_base + d) % S) % W]}
  IN  IF ds = {} THEN -1 ELSE CHOOSE d \in ds : \A e \in ds : d <= e

\* C5: A_timerinterrupt sends exactly the buffered copy of the oldest
\* unacknowledged outstanding packet and restarts the timer, and sends
\* nothing when none is outstanding
C5_TimeoutResendsOldest ==
  ev.op = "A_timerinterrupt" =>
    IF OldestUnacked >= 0
    THEN /\ ev.sent = <<buffer[((send_base + OldestUnacked) % S) % W]>>
         /\ timerA
    ELSE ev.sent = <<>>

\* C6: after A_input processed a new ACK, the timer runs if a packet is
\* still outstanding
C6_TimerKeptAlive ==
  (ev.op = "A_input" /\ ev.new_ACKs = 1 /\ windowcount > 0) => timerA

\* C7: starttimer is never called while A's timer is running
C7_NoDoubleStart == ~ev.dblStart

\* C8: every call of B_input hands exactly one packet to tolayer3
C8_OneAckPerEvent == ev.op = "B_input" => Len(ev.sent) = 1

\* C9: when A_input receives, uncorrupted, an ACK that B emitted for a
\* corrupted packet, it marks no slot, leaves send_base and windowcount and
\* does not touch the timer
C9_NakIsNoOp ==
  [][(ev'.op = "A_input" /\ ev'.nak /\ ~IsCorrupted(ev'.pkt)) =>
       /\ acked' = acked
       /\ send_base' = send_base
       /\ windowcount' = windowcount
       /\ timerA' = timerA
       /\ ev'.stops = 0
       /\ ev'.starts = 0]_vars

\* C10: a step in which B_input receives a corrupted packet leaves rcv_base,
\* the received flags and the buffered packets as they were and delivers
\* nothing; the ACK sequence toggle flips
C10_CorruptLeavesReceiver ==
  [][(ev'.op = "B_input" /\ IsCorrupted(ev'.pkt)) =>
       /\ rcv_base' = rcv_base
       /\ rcv_acked' = rcv_acked
       /\ rcv_buffer' = rcv_buffer
       /\ delivered' = delivered
       /\ ev'.deliv = <<>>
       /\ B_nextseqnum' = (B_nextseqnum + 1) % 2]_vars

\* B_input has received a corrupted packet while it held a buffered packet
\* in its window
C10_Witness ==
  /\ ev.op = "B_input"
  /\ IsCorrupted(ev.pkt)
  /\ ev.pkt.seqnum = rcv_base
  /\ \E i \in Slots : rcv_acked[i]

\* C11: a step in which A_input receives a packet whose checksum does not
\* match leaves send_base, A_nextseqnum, windowcount, the acked flags, the
\* buffered packets and the timer as they were, sends nothing and calls
\* neither starttimer nor stoptimer
C11_CorruptAckLeavesSender ==
  [][(ev'.op = "A_input" /\ ev'.pkt.checksum # ComputeChecksum(ev'.pkt)) =>
       /\ send_base' = send_base
       /\ A_nextseqnum' = A_nextseqnum
       /\ windowcount' = windowcount
       /\ acked' = acked
       /\ buffer' = buffer
       /\ timerA' = timerA
       /\ chanAB' = chanAB
       /\ ev'.sent = <<>>
       /\ ev'.starts = 0
       /\ ev'.stops = 0]_vars

\* A_input has received a corrupted ACK whose acknum names the unacknowledged
\* base of a window with packets outstanding, the timer running
C11_Witness ==
  /\ ev.op = "A_input"
  /\ ev.pkt.checksum # ComputeChecksum(ev.pkt)
  /\ ev.pkt.acknum = send_base
  /\ windowcount > 0
  /\ ~acked[send_base % W]
  /\ timerA

\* the sender state a result of A_receive holds
StateOf(r) ==
  [acked |-> r.acked, send_base |-> r.send_base, windowcount |-> r.windowcount,
   timerA |-> r.timerA]

\* C12: whenever A_input has received an uncorrupted ACK, A_input applied
\* once more to the state it left, for the same ACK, changes neither
\* send_base, windowcount, the acked flags nor the timer (A_input never
\* writes A_nextseqnum or the buffered packets), calls neither starttimer nor
\* stoptimer, and counts the ACK as received but not as new
C12_IdempotentAck ==
  [][(ev'.op = "A_input" /\ ~IsCorrupted(ev'.pkt)) =>
       \E twice \in {A_receive(SenderState', ev'.pkt)} :
         /\ StateOf(twice) = SenderState'
         /\ twice.stops = 0
         /\ twice.starts = 0
         /\ twice.total_ACKs_received = 1
         /\ twice.new_ACKs = 0]_vars

\* A_input has received, uncorrupted, the ACK B sent again for a
\* retransmitted packet, having already taken the ACK of that packet, which
\* is now behind send_base, while other packets are outstanding
C12_Witness ==
  /\ ev.op = "A_input"
  /\ ev.dup
  /\ ~IsCorrupted(ev.pkt)
  /\ ev.total_ACKs_received = 1
  /\ ev.new_ACKs = 0
  /\ ev.pkt.acknum = (send_base + S - 1) % S
  /\ windowcount > 0

\* C13: a step in which A_output is called with the window full sends
\* nothing, leaves the timer, send_base, A_nextseqnum, windowcount, the acked
\* flags and the buffered packets as they were, accepts no message and adds
\* one to window_full
C13_WindowFullRejects ==
  [][(ev'.op = "A_output" /\ windowcount = W) =>
       /\ ev'.sent = <<>>
       /\ chanAB' = chanAB
       /\ timerA' = timerA
       /\ ev'.starts = 0
       /\ ev'.stops = 0
       /\ send_base' = send_base
       /\ A_nextseqnum' = A_nextseqnum
       /\ windowcount' = windowcount
       /\ acked' = acked
       /\ buffer' = buffer
       /\ nmsg' = nmsg
       /\ ev'.window_full = 1]_vars

\* A_output has turned a message down with a window that spans the wrap of
\* the sequence numbers
C13_Witness ==
  /\ ev.op = "A_output"
  /\ ev.window_full = 1
  /\ windowcount = W
  /\ A_nextseqnum < send_base

\* C14: a step in which A_output is called with room in the window hands
\* tolayer3 exactly one packet, with seqnum the old A_nextseqnum (the index
\* of the message modulo SEQSPACE) and acknum NOTINUSE, stores it in slot
\* A_nextseqnum % WINDOWSIZE with the acked flag cleared, adds one to
\* windowcount, advances A_nextseqnum by one modulo SEQSPACE and leaves
\* send_base
C14_AcceptedSend ==
  [][(ev'.op = "A_output" /\ windowcount < W) =>
       /\ Len(ev'.sent) = 1
       /\ ev'.sent[1].seqnum = A_nextseqnum
       /\ ev'.sent[1].seqnum = nmsg % S
       /\ ev'.sent[1].acknum = NOTINUSE
       /\ buffer'[A_nextseqnum % W] = ev'.sent[1]
       /\ ~acked'[A_nextseqnum % W]
       /\ windowcount' = windowcount + 1
       /\ A_nextseqnum' = (A_nextseqnum + 1) % S
       /\ send_base' = send_base
       /\ nmsg' = nmsg + 1]_vars

\* A_output has accepted the message whose sequence number wraps to 0
C14_Witness ==
  /\ ev.op = "A_output"
  /\ Len(ev.sent) = 1
  /\ ev.sent[1].seqnum = 0
  /\ nmsg = SEQSPACE + 1
  /\ windowcount > 1

\* the acknum a names a packet that is outstanding and not yet acknowledged
Outstanding(a) ==
  /\ \E d \in 0 .. (windowcount - 1) : (send_base + d) % S = a
  /\ ~acked[a % W]

\* C15: when B_input receives, uncorrupted, the packet of a message it has
\* already delivered, it delivers and buffers nothing, leaves rcv_base, and
\* every ACK it sends carries that packet's seqnum; when A_input receives
\* such an ACK uncorrupted, a packet still outstanding is acknowledged (the
\* window slides past it at once if it is the base), and a packet the window
\* has already passed changes nothing, so send_base passes it once only
C15_LostAckRecovery ==
  [][/\ (ev'.op = "B_input" /\ ~IsCorrupted(ev'.pkt)
          /\ MsgOf(ev'.pkt.payload) < Len(delivered)) =>
            /\ ev'.deliv = <<>>
            /\ delivered' = delivered
            /\ rcv_buffer' = rcv_buffer
            /\ rcv_acked' = rcv_acked
            /\ rcv_base' = rcv_base
            /\ Len(ev'.sent) >= 1
            /\ \A k \in 1 .. Len(ev'.sent) :
                 /\ ev'.sent[k].acknum = ev'.pkt.seqnum
                 /\ ~IsCorrupted(ev'.sent[k])
     /\ (ev'.op = "A_input" /\ ev'.dup /\ ~IsCorrupted(ev'.pkt)) =>
            IF Outstanding(ev'.pkt.acknum)
            THEN /\ ev'.new_ACKs = 1
                 /\ IF ev'.pkt.acknum = send_base
                    THEN /\ send_base' # send_base
                         /\ windowcount' < windowcount
                         /\ send_base' = (send_base + windowcount - windowcount') % S
                    ELSE /\ acked'[ev'.pkt.acknum % W]
                         /\ send_base' = send_base
                         /\ windowcount' = windowcount
            ELSE /\ send_base' = send_base
                 /\ windowcount' = windowcount
                 /\ acked' = acked]_vars

\* A_input has taken as new the ACK B sent again for a retransmitted packet
\* it had already delivered, and the window has slid past that packet
C15_Witness ==
  /\ ev.op = "A_input"
  /\ ev.dup
  /\ ~IsCorrupted(ev.pkt)
  /\ ev.new_ACKs = 1
  /\ (send_base - ev.pkt.acknum + S) % S \in 1 .. W
  /\ Len(delivered) > 0

\* the packets a drain that starts at rcv_base delivers: the arriving one and
\* those buffered with the sequence numbers that follow it
RunLen ==
  CHOOSE n \in 1 .. W :
    /\ \A j \in 1 .. (n - 1) : rcv_acked[((rcv_base + j) % S) % W]
    /\ n = W \/ ~rcv_acked[((rcv_base + n) % S) % W]

\* C16: when B_input receives an uncorrupted packet in its window, a packet
\* other than rcv_base is buffered and nothing is delivered; the packet
\* rcv_base is delivered in that event, followed by the buffered packets with
\* the sequence numbers after it, in order, and rcv_base ends at the first
\* sequence number not received
C16_DrainRun ==
  [][(ev'.op = "B_input" /\ ~IsCorrupted(ev'.pkt)
       /\ (ev'.pkt.seqnum - rcv_base + S) % S < W) =>
         IF ev'.pkt.seqnum # rcv_base
         THEN /\ rcv_acked'[ev'.pkt.seqnum % W]
              /\ rcv_buffer'[ev'.pkt.seqnum % W] = ev'.pkt
              /\ ev'.deliv = <<>>
              /\ delivered' = delivered
              /\ rcv_base' = rcv_base
         ELSE /\ ev'.deliv =
                   [j \in 1 .. RunLen |->
                      IF j = 1 THEN ev'.pkt.payload
                      ELSE rcv_buffer[((rcv_base + j - 1) % S) % W].payload]
              /\ ev'.deliv = [j \in 1 .. RunLen |-> MsgData(Len(delivered) + j - 1)]
              /\ delivered' = delivered \o ev'.deliv
              /\ rcv_base' = (rcv_base + RunLen) % S
              /\ ~rcv_acked'[rcv_base' % W]]_vars

\* B_input has received the packet at rcv_base and delivered it together with
\* at least two packets it had buffered
C16_Witness ==
  /\ ev.op = "B_input"
  /\ ev.packets_received = 1
  /\ MsgOf(ev.pkt.payload) = ev.absBase
  /\ Len(ev.deliv) >= 3
  /\ ev.deliv[1] = ev.pkt.payload

\* C17: in a run whose links lose and corrupt nothing, whenever both links
\* are empty the sender has windowcount = 0 and send_base = A_nextseqnum, and
\* B has delivered exactly the messages A_output accepted, in order
C17_LossFreeQuiescence ==
  (chanAB = <<>> /\ chanBA = <<>>) =>
    /\ windowcount = 0
    /\ send_base = A_nextseqnum
    /\ delivered = [m \in 1 .. nmsg |-> MsgData(m - 1)]

\* all LossFreeMsgs messages have been accepted, both links are empty again
\* and the last ACK has just been received
C17_Witness ==
  /\ nmsg = LossFreeMsgs
  /\ quota = 0
  /\ chanAB = <<>>
  /\ chanBA = <<>>
  /\ ev.op = "A_input"
  /\ Len(delivered) = LossFreeMsgs

\* C18: for every base and every number x of the sequence space, the window
\* test of A_input on (send_base, x) and the window test of B_input on
\* (rcv_base, x) are both true exactly when (x - base) mod SEQSPACE is less
\* than WINDOWSIZE
C18_WindowTest ==
  ev.op = "WindowTest" =>
    /\ ev.inA = ((ev.pkt.acknum - send_base + S) % S < W)
    /\ ev.inB = ((ev.pkt.seqnum - rcv_base + S) % S < W)
    /\ ev.inA = ev.inB

\* both tests have accepted a number that lies, past the wrap, in a window
\* whose base is near the end of the sequence space
C18_Witness ==
  /\ ev.op = "WindowTest"
  /\ send_base = S - 1
  /\ rcv_base = S - 1
  /\ ev.pkt.seqnum = W - 2
  /\ ev.inA
  /\ ev.inB

\* the positions a slide that starts at send_base moves: past the base and
\* the acknowledged packets that follow it, as far as A_nextseqnum
SlideLen ==
  CHOOSE n \in 1 .. windowcount :
    /\ \A d \in 1 .. (n - 1) : acked[((send_base + d) % S) % W]
    /\ n = windowcount \/ ~acked[((send_base + n) % S) % W]

\* C19: when A_input takes a new ACK for send_base, send_base moves to the
\* first sequence number from the old base on that is not acknowledged
\* (A_nextseqnum when all are), windowcount drops by the positions moved and
\* the acked flag of every slot passed is cleared; and after every event with
\* windowcount > 0 the slot of send_base is not acknowledged
C19_SenderSlide ==
  [][/\ windowcount' > 0 => ~acked'[send_base' % W]
     /\ (ev'.op = "A_input" /\ ev'.new_ACKs = 1 /\ ev'.pkt.acknum = send_base) =>
          /\ windowcount > 0
          /\ send_base' = (send_base + SlideLen) % S
          /\ windowcount' = windowcount - SlideLen
          /\ \A d \in 0 .. (SlideLen - 1) : ~acked'[((send_base + d) % S) % W]
          /\ windowcount' = 0 => send_base' = A_nextseqnum]_vars

\* A_input has taken a new ACK for send_base and the window has slid past it
\* and past at least one packet acknowledged before it, others outstanding
C19_Witness ==
  /\ ev.op = "A_input"
  /\ ev.new_ACKs = 1
  /\ (send_base - ev.pkt.acknum + S) % S \in 2 .. W
  /\ windowcount > 0

\* C20: counted in whole messages, send_base is nmsg - windowcount, rcv_base
\* is the number of messages delivered and A_nextseqnum is nmsg (the three
\* variables hold these modulo SEQSPACE), and
\* send_base <= rcv_base <= A_nextseqnum
C20_NoReleaseBeforeDelivery ==
  /\ send_base = (nmsg - windowcount) % S
  /\ rcv_base = Len(delivered) % S
  /\ A_nextseqnum = nmsg % S
  /\ nmsg - windowcount <= Len(delivered)
  /\ Len(delivered) <= nmsg

\* after the wrap, B has delivered messages A still holds unacknowledged and
\* is waiting for others A has sent
C20_Witness ==
  /\ nmsg > SEQSPACE
  /\ nmsg - windowcount < Len(delivered)
  /\ Len(delivered) < nmsg
  /\ rcv_base < send_base

\* C21: whenever A_input takes an ACK as new, its acknum is the sequence
\* number of a packet A has sent, that lies in the window from send_base up
\* to A_nextseqnum, and that is not yet acknowledged; no ACK is taken for a
\* sequence number of the window that has not been sent
C21_NewAckIsOutstanding ==
  [][(ev'.op = "A_input" /\ ev'.new_ACKs = 1) =>
       /\ Outstanding(ev'.pkt.acknum)
       /\ (ev'.pkt.acknum - send_base + S) % S < windowcount]_vars

\* A_input has taken an ACK as new while a sequence number of the window
\* that was not sent yet had its acked flag false
C21_Witness ==
  /\ ev.op = "A_input"
  /\ ev.new_ACKs = 1
  /\ windowcount > 0
  /\ windowcount < W
  /\ ~acked[A_nextseqnum % W]
  /\ nmsg > W

\* C22: rcv_base changes in B_input only, by one position for each payload
\* the event delivers, the payloads being those of the packets with sequence
\* numbers rcv_base, rcv_base + 1, ... in turn; after every event the slot of
\* rcv_base is not flagged, every flagged slot holds a packet whose seqnum
\* lies strictly between rcv_base and rcv_base + WINDOWSIZE modulo SEQSPACE,
\* and at most WINDOWSIZE - 1 slots are flagged
C22_NoGapSkipped ==
  [][/\ rcv_base' # rcv_base => ev'.op = "B_input"
     /\ ev'.op = "B_input" =>
          /\ rcv_base' = (rcv_base + Len(ev'.deliv)) % S
          /\ \A j \in 1 .. Len(ev'.deliv) :
               /\ ev'.deliv[j] = MsgData(Len(delivered) + j - 1)
               /\ LET src == IF j = 1 THEN ev'.pkt
                             ELSE rcv_buffer[((rcv_base + j - 1) % S) % W]
                  IN  /\ src.seqnum = (rcv_base + j - 1) % S
                      /\ src.payload = ev'.deliv[j]
     /\ ~rcv_acked'[rcv_base' % W]
     /\ \A i \in Slots :
          rcv_acked'[i] =>
            /\ rcv_buffer'[i].seqnum % W = i
            /\ (rcv_buffer'[i].seqnum - rcv_base' + S) % S \in 1 .. (W - 1)
     /\ Cardinality({i \in Slots : rcv_acked'[i]}) <= W - 1]_vars

\* B_input has delivered the packet at rcv_base and one buffered after it,
\* and still holds a packet buffered beyond the next gap
C22_Witness ==
  /\ ev.op = "B_input"
  /\ Len(ev.deliv) >= 2
  /\ \E i \in Slots : rcv_acked[i]

\* C23: when A_input takes a new ACK for a sequence number other than
\* send_base, the acked flag of that slot becomes true and no other flag
\* changes; send_base, A_nextseqnum, windowcount and the buffered packets are
\* unchanged and nothing is sent
C23_SelectiveAck ==
  [][(ev'.op = "A_input" /\ ev'.new_ACKs = 1 /\ ev'.pkt.acknum # send_base) =>
       /\ acked' = [acked EXCEPT ![ev'.pkt.acknum % W] = TRUE]
       /\ send_base' = send_base
       /\ A_nextseqnum' = A_nextseqnum
       /\ windowcount' = windowcount
       /\ buffer' = buffer
       /\ chanAB' = chanAB
       /\ ev'.sent = <<>>]_vars

\* A_input has taken a new ACK for the packet two after send_base, the base
\* and the packet after it still unacknowledged
C23_Witness ==
  /\ ev.op = "A_input"
  /\ ev.new_ACKs = 1
  /\ ev.pkt.acknum = (send_base + 2) % S
  /\ acked[ev.pkt.acknum % W]
  /\ ~acked[send_base % W]
  /\ ~acked[((send_base + 1) % S) % W]
  /\ windowcount >= 3

\* C24: A_input calls stoptimer only for a new ACK of the oldest
\* unacknowledged outstanding packet, which is the packet at send_base; a new
\* ACK for another packet of the window calls neither stoptimer nor starttimer
C24_StopOnlyForBase ==
  [][/\ (ev'.op = "A_input" /\ ev'.stops > 0) => ev'.pkt.acknum = send_base
     /\ (ev'.op = "A_input" /\ ev'.new_ACKs = 1 /\ ev'.pkt.acknum # send_base) =>
          /\ ev'.stops = 0
          /\ ev'.starts = 0]_vars

\* the first position at which the payloads delivered differ from the
\* messages accepted (a payload delivered beyond the last message accepted
\* differs from it), or 0 when there is none
FirstBreak ==
  LET bad == {i \in 1 .. Len(delivered) : i > nmsg \/ delivered[i] # MsgData(i - 1)}
  IN  IF bad = {} THEN 0 ELSE CHOOSE i \in bad : \A j \in bad : i <= j

\* C25: in the build with SEQSPACE < 2 * WINDOWSIZE the payloads delivered
\* can stop being a prefix of the messages accepted (the witness), and where
\* they first differ B has delivered again the payload of a message it had
\* delivered before: the copy a retransmitted packet carried
C25_SmallSeqSpaceBreaks ==
  FirstBreak > 0 =>
    /\ MsgOf(delivered[FirstBreak]) < FirstBreak - 1
    /\ delivered[FirstBreak] = delivered[MsgOf(delivered[FirstBreak]) + 1]

\* B_input has delivered, out of its buffer and after a newer packet, the
\* payload of a message it had already delivered, which it had buffered when
\* the retransmission arrived
C25_Witness ==
  /\ FirstBreak > 0
  /\ ev.op = "B_input"
  /\ Len(ev.deliv) >= 2
  /\ FirstBreak = Len(delivered)
  /\ MsgOf(delivered[FirstBreak]) < FirstBreak - 1

\* C26: in src/unnamed/part_000, after every event A's timer runs exactly
\* when windowcount > 0 and the flag timer_running tells whether it runs;
\* starttimer is never called while the timer runs and stoptimer never while
\* it is stopped
C26_SingleTimer ==
  /\ timerA <=> windowcount > 0
  /\ timer_running = timerA
  /\ ~ev.dblStart
  /\ ~ev.badStop

\* with the window full and the timer running, A_input has taken a new ACK
\* for a packet other than the base and left the timer alone
C26_Witness ==
  /\ ev.op = "A_input"
  /\ ev.new_ACKs = 1
  /\ ev.stops = 0
  /\ windowcount = W
  /\ timerA
  /\ timer_running

\* C27: in src/unnamed/part_000 under fairness, whenever packets are
\* outstanding send_base eventually advances, and once the application has
\* offered its last message windowcount eventually returns to 0
C27_Progress ==
  /\ \A k \in 0 .. (LiveMsgs - 1) :
       (windowcount > 0 /\ nmsg - windowcount = k) ~> (nmsg - windowcount > k)
  /\ (quota = 0) ~> (windowcount = 0)

\* every message has been sent, the links have used up their losses and
\* corruptions, the timer has resent a packet, and the window is empty again
C27_Witness ==
  /\ quota = 0
  /\ faults = 0
  /\ nmsg = LiveMsgs
  /\ windowcount = 0
  /\ send_base = LiveMsgs % S
  /\ Len(delivered) = LiveMsgs
  /\ ev.op = "A_input"
  /\ ev.dup

\* C28: every ACK B_input sends has a valid checksum; for an uncorrupted
\* data packet, inside the window or not, its acknum is the packet's seqnum;
\* for a corrupted packet it is (rcv_base - 1) mod SEQSPACE, which is
\* SEQSPACE - 1 when rcv_base is 0
C28_AckNumber ==
  [][ev'.op = "B_input" =>
       /\ ev'.sent # <<>>
       /\ \A k \in DOMAIN ev'.sent :
            /\ ~IsCorrupted(ev'.sent[k])
            /\ IF IsCorrupted(ev'.pkt)
               THEN /\ ev'.sent[k].acknum = (rcv_base - 1 + S) % S
                    /\ rcv_base = 0 => ev'.sent[k].acknum = S - 1
               ELSE ev'.sent[k].acknum = ev'.pkt.seqnum]_vars

\* B has received a corrupted packet with rcv_base back at 0 after the
\* sequence numbers wrapped, and has answered with acknum SEQSPACE - 1
C28_Witness ==
  /\ ev.op = "B_input"
  /\ IsCorrupted(ev.pkt)
  /\ rcv_base = 0
  /\ nmsg >= S
  /\ ev.sent # <<>>
  /\ ev.sent[1].acknum = S - 1

\* C29: after every event windowcount = (A_nextseqnum - send_base) mod
\* SEQSPACE, the windowcount packets sent last are those numbered from
\* send_base up to A_nextseqnum, and windowcount is 0 exactly when
\* send_base = A_nextseqnum
C29_WindowSpan ==
  /\ windowcount = (A_nextseqnum - send_base + S) % S
  /\ windowcount = 0 <=> send_base = A_nextseqnum
  /\ send_base = (nmsg - windowcount) % S
  /\ A_nextseqnum = nmsg % S

\* the window is full and spans the wrap of the sequence numbers
C29_Witness ==
  /\ windowcount = W
  /\ A_nextseqnum < send_base
  /\ ev.op = "A_output"
  /\ ev.sent # <<>>

\* C30: after every event, for each outstanding message the slot (seqnum mod
\* WINDOWSIZE) of the sender buffer holds the packet first sent for it, no
\* two outstanding messages share a slot, and a packet A_timerinterrupt
\* resends is the packet first sent for an outstanding message
C30_FaithfulCopies ==
  LET out == (nmsg - windowcount) .. (nmsg - 1)
  IN  /\ \A m \in out : IsCopyOf(buffer[(m % S) % W], m)
      /\ \A m, n \in out : (m % S) % W = (n % S) % W => m = n
      /\ ev.op = "A_timerinterrupt" /\ ev.sent # <<>> =>
           \E m \in out : /\ ev.sent[1] = buffer[(m % S) % W]
                          /\ IsCopyOf(ev.sent[1], m)

\* A_timerinterrupt has resent a packet while the window spans the wrap of
\* the sequence numbers and holds more than one packet
C30_Witness ==
  /\ ev.op = "A_timerinterrupt"
  /\ ev.sent # <<>>
  /\ windowcount > 1
  /\ A_nextseqnum < send_base

\* C31: in src/sr.c, A_input never calls stoptimer while A's timer is not
\* running
C31_NoStopOfStoppedTimer ==
  ev.op = "A_input" => ~ev.badStop

\* the fields of seqnum, acknum and payload in which packets p and q differ
DiffFields(p, q) ==
  {f \in {"seqnum", "acknum", "payload"} : p[f] # q[f]}

\* the bytes of payload b are those of payload a, none lowered or none raised
SameDirection(a, b) ==
  \/ \A i \in DOMAIN a : b[i] >= a[i]
  \/ \A i \in DOMAIN a : b[i] <= a[i]

\* C32 as stated: a packet q that keeps the checksum computed for p and
\* differs from p in exactly one of seqnum, acknum and payload is found
\* corrupted
C32_SingleFieldDetected ==
  ev.op = "IsCorrupted" =>
    LET p == ev.sent[1]
        q == ev.pkt
    IN  /\ ~IsCorrupted(p)
        /\ Cardinality(DiffFields(p, q)) = 1 => ev.corrupted

\* C32 amended: a packet q that keeps the checksum computed for p and differs
\* from p in exactly one of seqnum, acknum and payload is found corrupted,
\* provided that a payload that differs has no byte lowered or no byte raised
C32_OneWayChangeDetected ==
  ev.op = "IsCorrupted" =>
    LET p == ev.sent[1]
        q == ev.pkt
    IN  /\ ~IsCorrupted(p)
        /\ q.checksum = p.checksum
        /\ (/\ Cardinality(DiffFields(p, q)) = 1
            /\ SameDirection(p.payload, q.payload)) => ev.corrupted

\* IsCorrupted has found corrupted a packet whose payload bytes were all
\* overwritten with CorruptChar, seqnum, acknum and checksum kept
C32_Witness ==
  /\ ev.op = "IsCorrupted"
  /\ ev.corrupted
  /\ DiffFields(ev.sent[1], ev.pkt) = {"payload"}
  /\ \A i \in 1 .. PayloadLen :
       /\ ev.pkt.payload[i] = CorruptChar
       /\ ev.sent[1].payload[i] # CorruptChar

====
